---- MODULE Spec2Model ----
(***************************************************************************)
(* A model of peter-ai/acoustic-print: the catalogue filter                *)
(* (get_filtered_tracks), the tempo normaliser (norm_tempo) and the        *)
(* fingerprint generator (generate_acousticprint, pol2cart) of             *)
(* src/src/acoustic_helpers/__init__.py, as they are called from the       *)
(* pages.                                                                  *)
(*                                                                         *)
(* Number conventions.  Bounded features are kept in hundredths            *)
(* (0..100 for 0.0..1.0), tempo in thousandths of a BPM (12750 for 12.75), *)
(* slider minutes in hundredths of a minute, durations in whole seconds.   *)
(* A pandas DataFrame is a record [columns, rows, text]: the ordered       *)
(* column names, the rows (records indexed by column name) and the set of  *)
(* columns that hold text or dates instead of numbers.                     *)
(***************************************************************************)
EXTENDS Integers, Sequences, FiniteSets, TLC

VARIABLES
    phase,          \* which call has last returned
    tracks_df,      \* the track x genre join handed to get_filtered_tracks
    filter_spec,    \* the 19 filter arguments of get_filtered_tracks
    views,          \* what get_filtered_tracks returned (or the error it raised)
    refiltered,     \* what get_filtered_tracks returned on its own TrackView
    tempo_in,       \* the argument of norm_tempo
    tempo_out,      \* what norm_tempo returned (or the error it raised)
    print_args,     \* the arguments of generate_acousticprint
    acoustic_print, \* what generate_acousticprint returned (or the error)
    song_selection, \* the id of the track selected on the Songs page
    radar_df,       \* what get_filtered_acoustics returned for the selection
    bar_df,         \* the table the Songs page hands to plot_acoustic_bars
    album,          \* the run of the Album page: its position and its locals
    renderings,     \* two browser sessions rendering the Album page at once
    session_state   \* st.session_state of a Songs session, and its last run

vars == <<phase, tracks_df, filter_spec, views, refiltered,
          tempo_in, tempo_out, print_args, acoustic_print,
          song_selection, radar_df, bar_df, album, renderings, session_state>>

songs_tables == <<song_selection, radar_df, bar_df>>

songs_page == <<tracks_df, filter_spec, views, refiltered, songs_tables>>

helper_calls == <<tempo_in, tempo_out, print_args, acoustic_print>>

sessions == <<renderings, session_state>>

(***************************************************************************)
(* Bounds of the model.                                                    *)
(***************************************************************************)
MaxTracks == 2      \* tracks in the catalogue
MaxGenres == 2      \* genres a track can belong to
MaxPoints == 6      \* largest points argument of the fingerprint generator
TempoWindow == 25   \* thousandths of a BPM explored on each side of a tempo bound
MaxCandidates == 5  \* albums in the database besides the requested one
MaxRenderings == 2  \* renderings of the Album page in one browser session
MaxRuns == 3        \* runs of the Songs page in one browser session

None == "none"

\* What a variable holds before the call that sets it: phase says which
\* variables hold an argument or a result.
NotCalled == [called |-> FALSE]

(***************************************************************************)
(* Columns.                                                                *)
(***************************************************************************)
\* The 7 bounded descriptors, in the order get_filtered_tracks tests them.
BoundedFeatures ==
    <<"Valence", "Energy", "Danceability", "Acousticness",
      "Instrumentalness", "Speechiness", "Liveness">>

\* The SELECT list of the Songs page, in order; Explicit is the last column.
InputColumns ==
    <<"Song", "Artist", "Album", "release_date", "num_tracks", "Duration",
      "Favorites", "Listens", "Genre", "Valence", "Energy", "Danceability",
      "Acousticness", "Instrumentalness", "Speechiness", "Liveness", "Tempo",
      "id", "album_id", "Explicit">>

\* The columns that hold no number: the titles and names, and the release date.
InputText == {"Song", "Artist", "Album", "Genre", "release_date"}

\* The column list that filtered_tracks_df.filter([...]) asks for.
GenreViewItems ==
    <<"id", "Valence", "Energy", "Danceability", "Acousticness",
      "Instrumentalness", "Speechiness", "Liveness", "Genre">>

Range(s) == {s[i] : i \in 1..Len(s)}

GenreName(g) == <<"Genre", g>>

(***************************************************************************)
(* DataFrame helpers (pandas).                                             *)
(***************************************************************************)
EmptyFrame == [columns |-> <<>>, rows |-> <<>>, text |-> {}]

\* Variant: no column is dropped.
KeepAllColumns(df) == df

\* Variant: df.iloc[:, 1:], the first column is dropped instead of the last.
DropFirstColumn(df) ==
    LET keep == SubSeq(df.columns, 2, Len(df.columns))
    IN  [columns |-> keep,
         rows    |-> [i \in 1..Len(df.rows) |->
                         [c \in Range(keep) |-> df.rows[i][c]]],
         text    |-> df.text \cap Range(keep)]

\* df.iloc[:, :-1]: every column but the last one, by position.
DropLastColumn(df) ==
    LET keep == SubSeq(df.columns, 1, Len(df.columns) - 1)
    IN  [columns |-> keep,
         rows    |-> [i \in 1..Len(df.rows) |->
                         [c \in Range(keep) |-> df.rows[i][c]]],
         text    |-> df.text \cap Range(keep)]

\* df.filter(items): the listed columns that exist, in the order listed.
FilterColumns(df, items) ==
    LET keep == SelectSeq(items, LAMBDA c : c \in Range(df.columns))
    IN  [columns |-> keep,
         rows    |-> [i \in 1..Len(df.rows) |->
                         [c \in Range(keep) |-> df.rows[i][c]]],
         text    |-> df.text \cap Range(keep)]

\* df.drop([col], axis=1) where col is a column of df.
DropColumn(df, col) ==
    LET keep == SelectSeq(df.columns, LAMBDA c : c # col)
    IN  [columns |-> keep,
         rows    |-> [i \in 1..Len(df.rows) |->
                         [c \in Range(keep) |-> df.rows[i][c]]],
         text    |-> df.text \ {col}]

\* df.drop_duplicates().reset_index(drop=True): the first occurrence of every
\* row, in order.
RECURSIVE Dedup(_, _)
Dedup(rows, seen) ==
    IF rows = <<>> THEN <<>>
    ELSE IF Head(rows) \in seen THEN Dedup(Tail(rows), seen)
         ELSE <<Head(rows)>> \o Dedup(Tail(rows), seen \cup {Head(rows)})

\* Variant: drop_duplicates() is left out.
KeepDuplicates(df) == df

DropDuplicates(df) == [df EXCEPT !.rows = Dedup(df.rows, {})]

(***************************************************************************)
(* Duration display: f"{x//60}:{x-((x//60)*60):02d}".                      *)
(***************************************************************************)
DigitChar == <<"0", "1", "2", "3", "4", "5", "6", "7", "8", "9">>

\* str(n) for n >= 0: decimal digits, no padding.
RECURSIVE Decimal(_)
Decimal(n) ==
    IF n < 10 THEN <<DigitChar[n + 1]>>
    ELSE Decimal(n \div 10) \o <<DigitChar[(n % 10) + 1]>>

\* Variant: the seconds are not padded.
NoPad(n) == Decimal(n)

\* format(n, "02d") for n >= 0: decimal digits, zero-padded to width 2.
ZeroPad2(n) == IF n < 10 THEN <<"0">> \o Decimal(n) ELSE Decimal(n)

FormatDuration(x) ==
    Decimal(x \div 60) \o <<":">> \o ZeroPad2(x - ((x \div 60) * 60))

(***************************************************************************)
(* get_filtered_tracks.                                                    *)
(***************************************************************************)
\* Variant: the lower bound of Liveness is exclusive.
RowMaskStrictLive(row, s) ==
    /\ s.min_valence <= row["Valence"] /\ row["Valence"] <= s.max_valence
    /\ s.min_energy <= row["Energy"] /\ row["Energy"] <= s.max_energy
    /\ s.min_dance <= row["Danceability"] /\ row["Danceability"] <= s.max_dance
    /\ s.min_acoustics <= row["Acousticness"] /\ row["Acousticness"] <= s.max_acoustics
    /\ s.min_instrument <= row["Instrumentalness"]
    /\ row["Instrumentalness"] <= s.max_instrument
    /\ s.min_speech <= row["Speechiness"] /\ row["Speechiness"] <= s.max_speech
    /\ s.min_live < row["Liveness"] /\ row["Liveness"] <= s.max_live
    /\ s.min_tempo <= row["Tempo"] /\ row["Tempo"] <= s.max_tempo
    /\ (s.min_duration * 60) <= row["Duration"] * 100
    /\ row["Duration"] * 100 <= (s.max_duration * 60)
    /\ row["Explicit"] \in s.explicit_vals

\* Variant: the explicit flag is not tested.
RowMaskAnyExplicit(row, s) ==
    /\ s.min_valence <= row["Valence"] /\ row["Valence"] <= s.max_valence
    /\ s.min_energy <= row["Energy"] /\ row["Energy"] <= s.max_energy
    /\ s.min_dance <= row["Danceability"] /\ row["Danceability"] <= s.max_dance
    /\ s.min_acoustics <= row["Acousticness"] /\ row["Acousticness"] <= s.max_acoustics
    /\ s.min_instrument <= row["Instrumentalness"]
    /\ row["Instrumentalness"] <= s.max_instrument
    /\ s.min_speech <= row["Speechiness"] /\ row["Speechiness"] <= s.max_speech
    /\ s.min_live <= row["Liveness"] /\ row["Liveness"] <= s.max_live
    /\ s.min_tempo <= row["Tempo"] /\ row["Tempo"] <= s.max_tempo
    /\ (s.min_duration * 60) <= row["Duration"] * 100
    /\ row["Duration"] * 100 <= (s.max_duration * 60)

\* The boolean mask of tracks_df.loc[...], for one row.
RowMask(row, s) ==
    /\ s.min_valence <= row["Valence"]
    /\ row["Valence"] <= s.max_valence
    /\ s.min_energy <= row["Energy"]
    /\ row["Energy"] <= s.max_energy
    /\ s.min_dance <= row["Danceability"]
    /\ row["Danceability"] <= s.max_dance
    /\ s.min_acoustics <= row["Acousticness"]
    /\ row["Acousticness"] <= s.max_acoustics
    /\ s.min_instrument <= row["Instrumentalness"]
    /\ row["Instrumentalness"] <= s.max_instrument
    /\ s.min_speech <= row["Speechiness"]
    /\ row["Speechiness"] <= s.max_speech
    /\ s.min_live <= row["Liveness"]
    /\ row["Liveness"] <= s.max_live
    /\ s.min_tempo <= row["Tempo"]
    /\ row["Tempo"] <= s.max_tempo
    \* minutes are in hundredths, so seconds are scaled by 100 to compare
    /\ (s.min_duration * 60) <= row["Duration"] * 100
    /\ row["Duration"] * 100 <= (s.max_duration * 60)
    /\ row["Explicit"] \in s.explicit_vals

\* The columns the mask reads with tracks_df[...], in evaluation order, and
\* the first of them that is missing (a KeyError).
MaskColumns ==
    <<"Valence", "Energy", "Danceability", "Acousticness", "Instrumentalness",
      "Speechiness", "Liveness", "Tempo", "Duration">>

Failure(kind) == [error |-> kind, tracks |-> EmptyFrame, genres |-> EmptyFrame]

get_filtered_tracks(df, s) ==
    IF \E c \in Range(MaskColumns) : c \notin Range(df.columns)
    THEN Failure("KeyError")
    \* a number compared with the text of a row: '<=' not supported
    ELSE IF \E c \in Range(MaskColumns) : c \in df.text /\ df.rows # <<>>
    THEN Failure("TypeError")
    \* tracks_df.Explicit on a frame without that column
    ELSE IF "Explicit" \notin Range(df.columns)
    THEN Failure("AttributeError")
    ELSE
      LET kept      == [df EXCEPT !.rows = SelectSeq(df.rows, LAMBDA r : RowMask(r, s))]
          cut       == DropLastColumn(kept)
      IN  IF "Duration" \notin Range(cut.columns)
          THEN Failure("AttributeError")
          ELSE
            LET shown == [cut EXCEPT
                            !.rows = [i \in 1..Len(cut.rows) |->
                                        [cut.rows[i] EXCEPT
                                           !["Duration"] = FormatDuration(@)]],
                            !.text = @ \cup {"Duration"}]
                filtered_genres_df == FilterColumns(shown, GenreViewItems)
            IN  IF "Genre" \notin Range(shown.columns)
                THEN Failure("KeyError")
                ELSE [error  |-> None,
                      tracks |-> DropDuplicates(DropColumn(shown, "Genre")),
                      genres |-> filtered_genres_df]

(***************************************************************************)
(* Numbers.  A value is an exact rational [t |-> "num", n, d] (d > 0,      *)
(* lowest terms) or, where the cosine or sine of an angle is no rational   *)
(* number, a term that names the operation and its operands.               *)
(***************************************************************************)
Abs(n) == IF n < 0 THEN -n ELSE n

RECURSIVE GCD(_, _)
GCD(a, b) == IF b = 0 THEN a ELSE GCD(b, a % b)

Num(n, d) ==
    LET g == GCD(Abs(n), d)
    IN  [t |-> "num", n |-> n \div g, d |-> d \div g]

Zero == Num(0, 1)
One == Num(1, 1)

IsNum(x) == x.t = "num"

Mul(a, b) ==
    IF IsNum(a) /\ IsNum(b) THEN Num(a.n * b.n, a.d * b.d)
    ELSE IF a = Zero \/ b = Zero THEN Zero
    ELSE IF a = One THEN b
    ELSE IF b = One THEN a
    ELSE [t |-> "mul", l |-> a, r |-> b]

Add(a, b) ==
    IF IsNum(a) /\ IsNum(b) THEN Num(a.n * b.d + b.n * a.d, a.d * b.d)
    ELSE IF a = Zero THEN b
    ELSE IF b = Zero THEN a
    ELSE [t |-> "add", l |-> a, r |-> b]

\* An angle is a non-negative rational multiple of pi, kept as a "num".
\* np.cos and np.sin are exact at the multiples of pi/2 and symbolic elsewhere.
AtQuarterTurn(a) == (2 * a.n) % a.d = 0
QuarterTurns(a) == ((2 * a.n) \div a.d) % 4

Cos(a) ==
    IF AtQuarterTurn(a)
    THEN Num(<<1, 0, -1, 0>>[QuarterTurns(a) + 1], 1)
    ELSE [t |-> "cos", n |-> a.n, d |-> a.d]

Sin(a) ==
    IF AtQuarterTurn(a)
    THEN Num(<<0, 1, 0, -1>>[QuarterTurns(a) + 1], 1)
    ELSE [t |-> "sin", n |-> a.n, d |-> a.d]

\* A feature kept in hundredths and a tempo kept in thousandths, as numbers.
Feature(v) == Num(v, 100)
Bpm(t) == Num(t, 1000)

(***************************************************************************)
(* norm_tempo.                                                             *)
(***************************************************************************)
MAX_TEMPO == 251072
MIN_TEMPO == 12750

Raised(kind, msg) == [error |-> kind, msg |-> msg]

\* Variant: the lower bound is accepted (tempo < min_tempo raises).
norm_tempo_closed_low(tempo) ==
    IF tempo < MIN_TEMPO \/ MAX_TEMPO < tempo
    THEN Raised("ValueError", <<>>)
    ELSE [error |-> None,
          value |-> Mul(Num(tempo - MIN_TEMPO, MAX_TEMPO - MIN_TEMPO), Num(10, 1))]

\* Variant: the offset is divided by max_tempo instead of the width of the range.
norm_tempo_over_max(tempo) ==
    IF tempo <= MIN_TEMPO \/ MAX_TEMPO < tempo
    THEN Raised("ValueError", <<>>)
    ELSE [error |-> None,
          value |-> Mul(Num(tempo - MIN_TEMPO, MAX_TEMPO), Num(10, 1))]

\* Variant: only the upper bound is tested.
norm_tempo_no_lower_bound(tempo) ==
    IF MAX_TEMPO < tempo
    THEN Raised("ValueError", <<>>)
    ELSE [error |-> None,
          value |-> Mul(Num(tempo - MIN_TEMPO, MAX_TEMPO - MIN_TEMPO), Num(10, 1))]

norm_tempo(tempo) ==
    IF tempo <= MIN_TEMPO \/ MAX_TEMPO < tempo
    THEN Raised("ValueError", <<>>)
    ELSE [error |-> None,
          value |-> Mul(Num(tempo - MIN_TEMPO, MAX_TEMPO - MIN_TEMPO), Num(10, 1))]

(***************************************************************************)
(* pol2cart and generate_acousticprint.                                    *)
(***************************************************************************)
pol2cart(rho, theta) ==
    [x |-> Mul(rho, Cos(theta)), y |-> Mul(rho, Sin(theta))]

\* np.linspace(0, 48 * np.pi, points)[i], for i in 0..points-1.
Theta(i, points) == IF points = 1 THEN Zero ELSE Num(48 * i, points - 1)

\* Variant: the labels are tiled (np.tile) instead of repeated.
AssembleTiled(labels, c1, c2, c3, points) ==
    [k \in 1..(3 * points) |->
        LET g == ((k - 1) \div points) + 1
            i == ((k - 1) % points) + 1
        IN  [Attribute |-> labels[((k - 1) % 3) + 1],
             X |-> <<c1[i].x, Zero, c3[i].y>>[g],
             Y |-> <<c1[i].y, c2[i].x, Zero>>[g],
             Z |-> <<Zero, c2[i].y, c3[i].x>>[g]]]

\* Variant: the three curves are laid in the same X-Y plane.
AssembleOnePlane(labels, c1, c2, c3, points) ==
    [k \in 1..(3 * points) |->
        LET g == ((k - 1) \div points) + 1
            i == ((k - 1) % points) + 1
        IN  [Attribute |-> labels[g],
             X |-> <<c1[i].x, c2[i].x, c3[i].x>>[g],
             Y |-> <<c1[i].y, c2[i].y, c3[i].y>>[g],
             Z |-> Zero]]

\* np.concatenate(...) of the three columns and the labels repeated points times.
Assemble(labels, c1, c2, c3, points) ==
    [k \in 1..(3 * points) |->
        LET g == ((k - 1) \div points) + 1
            i == ((k - 1) % points) + 1
        IN  [Attribute |-> labels[g],
             X |-> <<c1[i].x, Zero, c3[i].y>>[g],
             Y |-> <<c1[i].y, c2[i].x, Zero>>[g],
             Z |-> <<Zero, c2[i].y, c3[i].x>>[g]]]

DynamicsLabels == <<"Valence", "Energy", "Danceability">>
ArticulationLabels == <<"Acousticness", "Instrumentalness", "Speechinees">>

\* Variant: the offset of 1 is left out of the valence curve.
valence_rho_no_offset(data, theta) ==
    Mul(Bpm(data["Tempo"]),
        Cos(Mul(Mul(Num(5, 1), theta), Feature(data["Valence"]))))

\* rho of the three Rhythm & Dynamics curves at one theta.
valence_rho(data, theta) ==
    Add(Mul(Bpm(data["Tempo"]),
            Cos(Mul(Mul(Num(5, 1), theta), Feature(data["Valence"])))), One)

energy_rho(data, theta) ==
    Add(Mul(Bpm(data["Tempo"]),
            Cos(Mul(Mul(Num(5, 1), theta), Feature(data["Energy"])))), One)

danceability_rho(data, theta) ==
    Add(Mul(Bpm(data["Tempo"]),
            Cos(Mul(Mul(Num(5, 1), theta), Feature(data["Danceability"])))), One)

\* rho of the three Articulation & Texture curves at one theta; norm_tempo has
\* returned a value when these are evaluated.
acoustic_rho(data, theta) ==
    Mul(norm_tempo(data["Tempo"]).value,
        Add(Sin(Mul(Mul(Num(2, 1), theta), Feature(data["Speechiness"]))),
            Cos(Mul(Mul(Num(3, 1), theta), Feature(data["Acousticness"])))))

instrumental_rho(data, theta) ==
    Mul(norm_tempo(data["Tempo"]).value,
        Add(Sin(Mul(Mul(Num(2, 1), theta), Feature(data["Speechiness"]))),
            Cos(Mul(Mul(Num(3, 1), theta), Feature(data["Instrumentalness"])))))

speech_rho(data, theta) ==
    Mul(norm_tempo(data["Tempo"]).value,
        Add(Sin(Mul(Mul(Num(2, 1), theta), Feature(data["Speechiness"]))),
            Cos(Mul(Mul(Num(3, 1), theta), Feature(data["Speechiness"])))))

\* theta = np.linspace(0, 48 * np.pi, points).
Linspace(points) == [i \in 1..points |-> Theta(i - 1, points)]

\* pol2cart on arrays: one (x, y) per sample of rho and theta.
Curve(rho, theta) == [i \in 1..Len(theta) |-> pol2cart(rho[i], theta[i])]

\* def generate_acousticprint(data, points=3000, category="dynamics").
DefaultPoints == 3000
DefaultCategory == "dynamics"

TypeMessage(a) == <<"Expected pd.DataFrame but received data of type ", a.data_type>>

\* The branch on category, once the arguments have passed the type checks and
\* theta has been laid out.
PrintOfCategory(a, theta) ==
    IF a.category = "dynamics" THEN
        [error |-> None,
         rows  |-> Assemble(
                     DynamicsLabels,
                     Curve([i \in 1..a.points |-> valence_rho(a.data, theta[i])], theta),
                     Curve([i \in 1..a.points |-> energy_rho(a.data, theta[i])], theta),
                     Curve([i \in 1..a.points |-> danceability_rho(a.data, theta[i])], theta),
                     a.points)]
    ELSE IF a.category = "articulation" THEN
        IF norm_tempo(a.data["Tempo"]).error # None
        THEN norm_tempo(a.data["Tempo"])
        ELSE [error |-> None,
              rows  |-> Assemble(
                          ArticulationLabels,
                          Curve([i \in 1..a.points |-> acoustic_rho(a.data, theta[i])], theta),
                          Curve([i \in 1..a.points |-> instrumental_rho(a.data, theta[i])], theta),
                          Curve([i \in 1..a.points |-> speech_rho(a.data, theta[i])], theta),
                          a.points)]
    ELSE Raised("ValueError",
                <<"Valid values for category are 'dynamics' or 'articulation', not ",
                  a.category>>)

generate_acousticprint(a) ==
    IF a.data_type # "DataFrame" THEN Raised("TypeError", TypeMessage(a))
    ELSE IF a.points_type # "int" THEN Raised("TypeError", TypeMessage(a))
    ELSE IF a.category_type # "str" THEN Raised("TypeError", TypeMessage(a))
    \* np.linspace and np.zeros refuse a negative number of samples
    ELSE IF a.points < 0
    THEN Raised("ValueError",
                <<"Number of samples, ", a.points, ", must be non-negative.">>)
    ELSE PrintOfCategory(a, Linspace(a.points))

(***************************************************************************)
(* get_filtered_acoustics and the comparison tables of the Songs page.     *)
(* A group label is a pair: a genre title is ("Genre", g) and a fixed      *)
(* label such as 'Current Song' is (text, 0).  The values of a comparison  *)
(* table are exact numbers.                                                *)
(***************************************************************************)
Label(txt) == <<txt, 0>>

\* The column list of data.filter([...]).
RadarItems ==
    <<"Valence", "Energy", "Danceability", "Acousticness",
      "Instrumentalness", "Speechiness", "Liveness">>

\* The number a cell of a column holds.
Cell(col, v) ==
    IF col \in Range(RadarItems) THEN Feature(v)
    ELSE IF col = "Tempo" THEN Bpm(v)
    ELSE Num(v, 1)

RECURSIVE SumColumn(_, _, _)
SumColumn(rows, col, k) ==
    IF k > Len(rows) THEN Zero
    ELSE Add(Cell(col, rows[k][col]), SumColumn(rows, col, k + 1))

\* Series.mean() of a column over rows (at least one): the sum over the count.
MeanOf(rows, col) == Mul(SumColumn(rows, col, 1), Num(1, Len(rows)))

\* The keys of groupby(by="Genre"), sorted.
RECURSIVE SortedLabels(_)
SortedLabels(S) ==
    IF S = {} THEN <<>>
    ELSE LET least == CHOOSE x \in S : \A y \in S : x[2] <= y[2]
         IN  <<least>> \o SortedLabels(S \ {least})

ComparisonRow(theta, group, rho) ==
    ("Theta" :> theta) @@ ("Song's Genres" :> group) @@ ("Rho" :> rho)

\* Variant: every genre of the GenreRowView is aggregated.
TargetGenresAll(data, filtered_genres_df) ==
    {filtered_genres_df.rows[k]["Genre"] : k \in 1..Len(filtered_genres_df.rows)}

\* filtered_genres_df.loc[filtered_genres_df.id == data.id.iloc[0], "Genre"].
TargetGenres(data, filtered_genres_df) ==
    {filtered_genres_df.rows[k]["Genre"] :
        k \in {j \in 1..Len(filtered_genres_df.rows) :
                  filtered_genres_df.rows[j]["id"] = data.rows[1]["id"]}}

get_filtered_acoustics(data, filtered_genres_df) ==
    \* data.id.iloc[0] of a frame without rows
    IF data.rows = <<>> THEN Raised("IndexError", <<>>)
    \* three column names for a transposed frame of 1 + len(data) columns
    ELSE IF Len(data.rows) # 1 THEN Raised("ValueError", <<>>)
    ELSE
      LET genre       == TargetGenres(data, filtered_genres_df)
          items       == SelectSeq(RadarItems, LAMBDA c : c \in Range(data.columns))
          track_radar == [k \in 1..Len(items) |->
                            ComparisonRow(items[k], Label("Current Song"),
                                          Cell(items[k], data.rows[1][items[k]]))]
          \* the columns left by .drop("id", axis=1).groupby(by="Genre").mean()
          averaged    == SelectSeq(filtered_genres_df.columns,
                                   LAMBDA c : c \notin {"id", "Genre"})
          groups      == SortedLabels(genre)
          members(g)  == SelectSeq(filtered_genres_df.rows, LAMBDA r : r["Genre"] = g)
          n           == Len(averaged)
          genre_radar == [k \in 1..(Len(groups) * n) |->
                            LET g == groups[((k - 1) \div n) + 1]
                                c == averaged[((k - 1) % n) + 1]
                            IN  ComparisonRow(c, g, MeanOf(members(g), c))]
      IN  [error   |-> None,
           columns |-> <<"Theta", "Song's Genres", "Rho">>,
           rows    |-> track_radar \o genre_radar]

\* df.drop(labels, axis=1), every label being a column of df.
DropColumns(df, labels) ==
    LET keep == SelectSeq(df.columns, LAMBDA c : c \notin Range(labels))
    IN  [columns |-> keep,
         rows    |-> [i \in 1..Len(df.rows) |->
                         [c \in Range(keep) |-> df.rows[i][c]]],
         text    |-> df.text \ Range(labels)]

\* df.columns = names: the columns are renamed by position.
Rename(columns, rows, names) ==
    [i \in 1..Len(rows) |->
        [c \in Range(names) |->
            rows[i][columns[CHOOSE k \in 1..Len(names) : names[k] = c]]]]

\* What DataFrame.mean(axis=0) makes of a column of dates depends on the pandas
\* release and on how the driver delivers dates: the column is left out, it is
\* averaged like a number, or the reduction raises a TypeError.
DateMeans == {"skipped", "averaged", "raises"}

\* df.mean(axis=0).reset_index(drop=False) with a label column added: one row
\* (column name, mean, label) per averaged column, in column order.
ColumnMeans(df, dates, label) ==
    LET averaged == SelectSeq(df.columns,
                              LAMBDA c : c \notin df.text \/ dates = "averaged")
    IN  [k \in 1..Len(averaged) |->
            <<averaged[k], MeanOf(df.rows, averaged[k]), label>>]

\* The order of sort_values(by="Music Subset"): the fixed labels in string
\* order, and the genre titles, taken to sort after them, in theirs.
LabelRank(label) ==
    IF label[1] = "Catalogue (filtered)" THEN 0
    ELSE IF label[1] = "Catalogue (total)" THEN 1
    ELSE IF label[1] = "Current Song" THEN 2
    ELSE 2 + label[2]

RECURSIVE SortByLabel(_, _, _)
SortByLabel(rows, by, rank) ==
    IF \A k \in 1..Len(rows) : LabelRank(rows[k][by]) < rank THEN <<>>
    ELSE SelectSeq(rows, LAMBDA r : LabelRank(r[by]) = rank)
         \o SortByLabel(rows, by, rank + 1)

FilteredDropList ==
    <<"Song", "Artist", "Album", "Duration", "Favorites", "Listens", "Tempo", "id">>

TotalDropList ==
    <<"Song", "Artist", "Album", "release_date", "album_id", "num_tracks",
      "Duration", "Favorites", "Listens", "Genre", "Tempo", "Explicit">>

BarColumns == <<"Audio Features", "Values", "Music Subset">>

\* The third tab of the Songs page: the table handed to plot_acoustic_bars.
SongsBarTable(all_tracks, filtered_tracks_df, radar, dates) ==
    LET shown == DropColumns(filtered_tracks_df, FilteredDropList)
    IN  IF dates = "raises" /\ shown.text # {}
        THEN Raised("TypeError", <<>>)
        ELSE
          LET filtered_means ==
                  [k \in 1..Len(ColumnMeans(shown, dates, 0)) |->
                      LET m == ColumnMeans(shown, dates,
                                           Label("Catalogue (filtered)"))[k]
                      IN  ComparisonRow(m[1], m[3], m[2])]
              \* pd.concat([bar_df, radar_df]) keeps the column order of bar_df
              unioned == Rename(<<"Theta", "Rho", "Song's Genres">>,
                                filtered_means \o radar.rows, BarColumns)
              features == DropColumn(
                              DropDuplicates(DropColumns(all_tracks, TotalDropList)),
                              "id")
              total_means == ColumnMeans(features, dates, Label("Catalogue (total)"))
              catalogue_df ==
                  [k \in 1..Len(total_means) |->
                      ("Audio Features" :> total_means[k][1])
                      @@ ("Values" :> total_means[k][2])
                      @@ ("Music Subset" :> total_means[k][3])]
          IN  [error   |-> None,
               columns |-> BarColumns,
               rows    |-> SortByLabel(unioned \o catalogue_df, "Music Subset", 0)]

\* The columns px.bar is told to read: x, y and color.
PlotBarsColumns == <<"Audio Features", "Values", "Track Subset">>

\* plot_acoustic_bars: px.bar refuses a frame that lacks a column it is told
\* to read (ValueError); else the bars of every group, coloured by group.
plot_acoustic_bars(data_frame) ==
    IF \E c \in Range(PlotBarsColumns) : c \notin Range(data_frame.columns)
    THEN Raised("ValueError",
                <<"not the name of a column in 'data_frame'",
                  CHOOSE c \in Range(PlotBarsColumns) : c \notin Range(data_frame.columns)>>)
    ELSE [error |-> None,
          bars  |-> {<<r["Track Subset"], r["Audio Features"], r["Values"]>> :
                        r \in Range(data_frame.rows)}]

\* The names the second tab of the Album page gives the columns of its copy
\* of radar_df.
AlbumBarColumns == <<"Audio Features", "Music Subset", "Values">>

(***************************************************************************)
(* The Album page.  The database is a sequence of albums [id, dated,       *)
(* tracks]; a track is [vec, genres]: its 7 bounded features in hundredths *)
(* in the order of AlbumFeatures, and the ids of its genres.  A feature    *)
(* vector of a query result is a tuple of 7 exact numbers.                 *)
(***************************************************************************)
AlbumFeatures ==
    <<"Valence", "Danceability", "Energy", "Acousticness",
      "Instrumentalness", "Speechiness", "Liveness">>

\* The genre ids of a track, ascending.
RECURSIVE Ascending(_)
Ascending(S) ==
    IF S = {} THEN <<>>
    ELSE LET least == CHOOSE x \in S : \A y \in S : x <= y
         IN  <<least>> \o Ascending(S \ {least})

RECURSIVE Flatten(_)
Flatten(seqs) ==
    IF seqs = <<>> THEN <<>> ELSE Head(seqs) \o Flatten(Tail(seqs))

\* The rows of Albums x Tracks x Track_Genres for one album: one row per track
\* and genre of the track.
AlbumJoin(a) ==
    Flatten([t \in 1..Len(a.tracks) |->
                [g \in 1..Cardinality(a.tracks[t].genres) |->
                    [album |-> a.id, dated |-> a.dated, track |-> t,
                     vec |-> a.tracks[t].vec,
                     genre_id |-> Ascending(a.tracks[t].genres)[g]]]])

\* SELECT ... WHERE Ab.id={id}.
Discography(db, id) ==
    Flatten([k \in 1..Len(db) |-> IF db[k].id = id THEN AlbumJoin(db[k]) ELSE <<>>])

RECURSIVE SumFeature(_, _, _)
SumFeature(rows, f, k) ==
    IF k > Len(rows) THEN Zero
    ELSE Add(Feature(rows[k].vec[f]), SumFeature(rows, f, k + 1))

\* frame.filter([7 features]).mean(axis=0), AVG(T.feature): the mean of every
\* feature over the rows given (at least one).
MeanVector(rows) ==
    [f \in 1..Len(AlbumFeatures) |-> Mul(SumFeature(rows, f, 1), Num(1, Len(rows)))]

\* Series.unique(): the values in order of first appearance.
RECURSIVE Unique(_, _)
Unique(vals, seen) ==
    IF vals = <<>> THEN <<>>
    ELSE IF Head(vals) \in seen THEN Unique(Tail(vals), seen)
         ELSE <<Head(vals)>> \o Unique(Tail(vals), seen \cup {Head(vals)})

\* Variant: the requested album is not excluded (no Ab.id<>{id}).
CandidateAlbumsAll(db, id) == SelectSeq(db, LAMBDA a : Len(a.tracks) # 0 /\ a.dated)

\* WHERE Ab.num_tracks<>0 AND Ab.id<>{id} AND Ab.release_date IS NOT NULL.
CandidateAlbums(db, id) ==
    SelectSeq(db, LAMBDA a : Len(a.tracks) # 0 /\ a.id # id /\ a.dated)

\* The albums-by-genre query: one row per candidate album and genre among
\* genres_ids, with the features averaged over the album's tracks of the genre.
AlbumsByGenre(db, id, genres_ids) ==
    LET albums == CandidateAlbums(db, id)
        group(a, g) == SelectSeq(AlbumJoin(a), LAMBDA r : r.genre_id = g)
        present(a) == SelectSeq(genres_ids, LAMBDA g : group(a, g) # <<>>)
    IN  Flatten([k \in 1..Len(albums) |->
                    [j \in 1..Len(present(albums[k])) |->
                        [id |-> albums[k].id,
                         Genre |-> present(albums[k])[j],
                         vec |-> MeanVector(group(albums[k], present(albums[k])[j]))]]])

RECURSIVE Dot(_, _, _)
Dot(u, v, k) ==
    IF k > Len(u) THEN Zero ELSE Add(Mul(u[k], v[k]), Dot(u, v, k + 1))

Less(a, b) == a.n * b.d < b.n * a.d

\* sklearn's cosine_distances(X, y) is 1 - (x.y)/(|x||y|), a vector of norm 0
\* being left as it is.  No feature is negative, so distances are compared
\* through the squared cosine (x.y)^2 / (|x|^2 |y|^2): the larger the squared
\* cosine the smaller the distance.
SquaredCosine(x, y) ==
    LET xx == Dot(x, x, 1)
        yy == Dot(y, y, 1)
        xy == Dot(x, y, 1)
    IN  IF xx = Zero \/ yy = Zero THEN Zero
        ELSE Num(xy.n * xy.n * xx.d * yy.d, xy.d * xy.d * xx.n * yy.n)

Closer(c1, c2) == Less(c2, c1)

\* Variant: the first rows of the partition, whatever their distances.
ArgPartitionFirstRows(cosines, kth) == {[i \in 1..kth |-> i]}

\* np.argpartition(cos_dis, 3)[:3]: numpy promises that the first 3 positions
\* hold 3 smallest distances, in no particular order.  The possible results, as
\* sequences of 3 positions of cos_dis (given as squared cosines).
ArgPartitionTop(cosines, kth) ==
    {p \in [1..kth -> 1..Len(cosines)] :
        /\ \A i, j \in 1..kth : i # j => p[i] # p[j]
        /\ \A q \in (1..Len(cosines)) \ {p[i] : i \in 1..kth} :
              \A i \in 1..kth : ~Closer(cosines[q], cosines[p[i]])}

\* The number of recommendations asked of each genre.
TopK == 3

\* Variant: every row is written, whatever the accumulator holds.
write_recs_no_skip(ids, recommendations) ==
    [written |-> ids, recommendations |-> recommendations \cup Range(ids)]

\* write_recs(row, recommendations), applied to the rows of genre_recs in
\* order: an album already in recommendations is not written again; an album
\* written is recorded in recommendations.
RECURSIVE write_recs(_, _)
write_recs(ids, recommendations) ==
    IF ids = <<>> THEN [written |-> <<>>, recommendations |-> recommendations]
    ELSE IF Head(ids) \in recommendations
         THEN write_recs(Tail(ids), recommendations)
         ELSE LET rest == write_recs(Tail(ids), recommendations \cup {Head(ids)})
              IN  [written |-> <<Head(ids)>> \o rest.written,
                   recommendations |-> rest.recommendations]

(***************************************************************************)
(* Inputs.  A call of get_filtered_tracks is explored one filter dimension *)
(* at a time: the filter leaves every slider at its full range but one,    *)
(* and the tracks differ from the mid-range track in that same column.     *)
(***************************************************************************)
Dimensions == Range(BoundedFeatures) \cup {"Tempo", "Duration", "Explicit"}

ExplicitFlags == {-1, 0, 1}

\* The values a slider bound takes, per dimension (the ends and one inner stop).
BoundGrid(dim) ==
    IF dim = "Tempo" THEN {12000, 120000, 275000}
    ELSE IF dim = "Duration" THEN {0, 150, 6000}
    ELSE {0, 50, 100}

\* The values a track takes in the dimension explored.
TrackGrid(dim) ==
    IF dim = "Tempo" THEN {12750, 120000, 251072}
    ELSE IF dim = "Duration" THEN {65, 90, 3600}
    ELSE IF dim = "Explicit" THEN ExplicitFlags
    ELSE {0, 50, 100}

\* The mid-range track.
BaseValue(col) ==
    IF col = "Tempo" THEN 120000
    ELSE IF col = "Duration" THEN 90
    ELSE IF col = "Explicit" THEN 0
    ELSE 50

\* The sliders and the multiselect at their defaults (the full ranges).
FullSpec ==
    [min_valence |-> 0, max_valence |-> 100,
     min_energy |-> 0, max_energy |-> 100,
     min_dance |-> 0, max_dance |-> 100,
     min_acoustics |-> 0, max_acoustics |-> 100,
     min_instrument |-> 0, max_instrument |-> 100,
     min_speech |-> 0, max_speech |-> 100,
     min_live |-> 0, max_live |-> 100,
     min_tempo |-> 12000, max_tempo |-> 275000,
     min_duration |-> 0, max_duration |-> 6000,
     explicit_vals |-> {0, -1, 1}]

MinField ==
    [Valence |-> "min_valence", Energy |-> "min_energy",
     Danceability |-> "min_dance", Acousticness |-> "min_acoustics",
     Instrumentalness |-> "min_instrument", Speechiness |-> "min_speech",
     Liveness |-> "min_live", Tempo |-> "min_tempo", Duration |-> "min_duration"]

MaxField ==
    [Valence |-> "max_valence", Energy |-> "max_energy",
     Danceability |-> "max_dance", Acousticness |-> "max_acoustics",
     Instrumentalness |-> "max_instrument", Speechiness |-> "max_speech",
     Liveness |-> "max_live", Tempo |-> "max_tempo", Duration |-> "max_duration"]

\* The filters that move one slider (a slider never returns min > max) or the
\* explicit multiselect.
FilterSpecs(dim) ==
    IF dim = "Explicit"
    THEN {[FullSpec EXCEPT !.explicit_vals = e] : e \in SUBSET ExplicitFlags}
    ELSE {[FullSpec EXCEPT ![MinField[dim]] = b[1], ![MaxField[dim]] = b[2]] :
            b \in {c \in BoundGrid(dim) \X BoundGrid(dim) : c[1] <= c[2]}}

\* One row of the join: track id in one of its genres.  The columns that no
\* filter reads are functions of the track id; Listens falls as the id grows,
\* which is the ORDER BY Listens DESC of the query.
JoinRow(id, g, dim, v) ==
    [c \in Range(InputColumns) |->
        IF c = dim THEN v
        ELSE IF c = "Genre" THEN GenreName(g)
        ELSE IF c \in {"Song", "id", "Album", "album_id", "Favorites"} THEN id
        ELSE IF c = "Listens" THEN 1000 - id
        ELSE IF c \in {"Artist", "release_date", "num_tracks"} THEN 1
        ELSE BaseValue(c)]

\* The join of a catalogue: track i has value cat[i][1] in the dimension
\* explored and belongs to the genres 1..cat[i][2]; one row per track and genre.
RECURSIVE JoinRows(_, _, _)
JoinRows(cat, dim, i) ==
    IF i > Len(cat) THEN <<>>
    ELSE [g \in 1..cat[i][2] |-> JoinRow(i, g, dim, cat[i][1])]
         \o JoinRows(cat, dim, i + 1)

Join(cat, dim) ==
    [columns |-> InputColumns, rows |-> JoinRows(cat, dim, 1), text |-> InputText]

Catalogues(dim) ==
    UNION {[1..n -> TrackGrid(dim) \X (1..MaxGenres)] : n \in 0..MaxTracks}

\* The tempos handed to norm_tempo: around each bound of its domain, and some
\* far from both.
TempoSamples ==
    {MIN_TEMPO + k : k \in (-TempoWindow)..TempoWindow}
    \cup {MAX_TEMPO + k : k \in (-TempoWindow)..TempoWindow}
    \cup {0, 12000, 120000, 275000}

\* The one-row frames handed to generate_acousticprint: the first, second and
\* third feature of either category take f[1], f[2] and f[3].
PrintData(f, tempo) ==
    [Tempo |-> tempo, Valence |-> f[1], Energy |-> f[2], Danceability |-> f[3],
     Acousticness |-> f[1], Instrumentalness |-> f[2], Speechiness |-> f[3],
     Liveness |-> 50]

PrintTempos == {0, 12750, 120000, 251072, 275000}

WellTypedArgs ==
    {[data |-> PrintData(f, t), data_type |-> "DataFrame",
      points |-> p, points_type |-> "int",
      category |-> c, category_type |-> "str"] :
        f \in {0, 50, 100} \X {0, 50, 100} \X {0, 50, 100},
        t \in PrintTempos, p \in (-1)..MaxPoints,
        c \in {"dynamics", "articulation", "rhythm"}}

IllTypedArgs ==
    {[a EXCEPT !.data_type = k[1], !.points_type = k[2], !.category_type = k[3]] :
        a \in {w \in WellTypedArgs : w.data = PrintData(<<50, 50, 50>>, 120000)},
        k \in {<<"dict", "int", "str">>, <<"DataFrame", "float", "str">>,
               <<"DataFrame", "int", "int">>}}

\* The calls that leave points to its default: the selected track of the Songs
\* page, in either category.
DefaultArgs ==
    {[data |-> PrintData(<<50, 0, 100>>, t), data_type |-> "DataFrame",
      points |-> DefaultPoints, points_type |-> "int",
      category |-> c, category_type |-> "str"] :
        t \in {120000}, c \in {DefaultCategory, "articulation"}}

\* The databases of the Album page.  Album 1 is the requested album; albums
\* 2, 3, ... have one track each, in genre 1 or in genres 1 and 2, whose
\* Valence differs from album to album (spread = 1) or is shared by pairs of
\* albums (spread = 2).
AlbumTrack(valence, genres) ==
    [vec |-> <<valence, 50, 50, 50, 50, 50, 50>>, genres |-> genres]

RequestedTracks ==
    {<<>>,
     <<AlbumTrack(50, {1})>>,
     <<AlbumTrack(100, {1, 2})>>,
     <<AlbumTrack(100, {1, 2}), AlbumTrack(0, {1})>>,
     <<AlbumTrack(0, {2}), AlbumTrack(100, {1, 2})>>}

CandidateValence(j, spread) == ((j \div spread) * 30) % 110

DatabasesOf(n) ==
    {[k \in 1..(1 + n) |->
        IF k = 1
        THEN [id |-> 1, dated |-> d, tracks |-> tl]
        ELSE [id |-> k, dated |-> TRUE,
              tracks |-> <<AlbumTrack(CandidateValence(k - 1, spread),
                                      IF both[k - 1] THEN {1, 2} ELSE {1})>>]] :
        tl \in RequestedTracks, d \in BOOLEAN,
        both \in [1..n -> BOOLEAN], spread \in {1, 2}}

Databases == UNION {DatabasesOf(n) : n \in 0..MaxCandidates}

\* Two browser sessions, each running main() of the Album page in a thread of
\* its own.
SessionIds == {1, 2}

\* The database the two sessions read: six dated albums of one track each, all
\* of genre 1, no two with the same Valence.  Session s requests album s.
SessionValence == <<50, 40, 0, 30, 60, 90>>

SessionDatabase ==
    [k \in 1..Len(SessionValence) |->
        [id |-> k, dated |-> TRUE, tracks |-> <<AlbumTrack(SessionValence[k], {1})>>]]

(***************************************************************************)
(* The calls.                                                              *)
(***************************************************************************)
Init ==
    /\ phase = "idle"
    /\ tracks_df = NotCalled
    /\ filter_spec = NotCalled
    /\ views = NotCalled
    /\ refiltered = NotCalled
    /\ tempo_in = 0
    /\ tempo_out = NotCalled
    /\ print_args = NotCalled
    /\ acoustic_print = NotCalled
    /\ song_selection = 0
    /\ radar_df = NotCalled
    /\ bar_df = NotCalled
    /\ album = NotCalled
    /\ renderings = [s \in SessionIds |->
                        [run |-> NotCalled, count |-> 0, emitted_before |-> {}]]
    /\ session_state = NotCalled

\* The Songs page filters the catalogue it queried.
CallGetFilteredTracks ==
    /\ phase = "idle"
    /\ \E dim \in Dimensions :
         \E cat \in Catalogues(dim), s \in FilterSpecs(dim) :
            /\ tracks_df' = Join(cat, dim)
            /\ filter_spec' = s
            /\ views' = get_filtered_tracks(Join(cat, dim), s)
    /\ phase' = "filtered"
    /\ UNCHANGED <<refiltered, tempo_in, tempo_out, print_args, acoustic_print,
                   songs_tables, album, sessions>>

\* The TrackView is filtered again with the same filter.
CallGetFilteredTracksAgain ==
    /\ phase = "filtered"
    /\ views.error = None
    /\ refiltered' = get_filtered_tracks(views.tracks, filter_spec)
    /\ phase' = "refiltered"
    /\ UNCHANGED <<tracks_df, filter_spec, views, tempo_in, tempo_out,
                   print_args, acoustic_print, songs_tables, album, sessions>>

CallNormTempo ==
    /\ phase = "idle"
    /\ \E tempo \in TempoSamples :
         /\ tempo_in' = tempo
         /\ tempo_out' = norm_tempo(tempo)
    /\ phase' = "normed"
    /\ UNCHANGED <<tracks_df, filter_spec, views, refiltered, print_args,
                   acoustic_print, songs_tables, album, sessions>>

CallGenerateAcousticprint ==
    /\ phase = "idle"
    /\ \E a \in WellTypedArgs \cup IllTypedArgs :
         /\ print_args' = a
         /\ acoustic_print' = generate_acousticprint(a)
    /\ phase' = "printed"
    /\ UNCHANGED <<tracks_df, filter_spec, views, refiltered, tempo_in, tempo_out,
                   songs_tables, album, sessions>>

\* generate_acousticprint(track, category=...): points is not passed.
CallGenerateAcousticprintDefault ==
    /\ phase = "idle"
    /\ \E a \in DefaultArgs :
         /\ print_args' = a
         /\ acoustic_print' = generate_acousticprint(a)
    /\ phase' = "printed_default"
    /\ UNCHANGED <<tracks_df, filter_spec, views, refiltered, tempo_in, tempo_out,
                   songs_tables, album, sessions>>

\* A run of the Songs page with a song selected: the catalogue is queried and
\* filtered, one track of the TrackView is the selection, and the radar and
\* bar tabs build their tables.  The catalogues vary Valence.
CompareSelectedSong ==
    /\ phase = "idle"
    /\ \E cat \in Catalogues("Valence"), s \in FilterSpecs("Valence") :
         \E filtered \in {get_filtered_tracks(Join(cat, "Valence"), s)} :
            /\ filtered.error = None
            /\ \E k \in 1..Len(filtered.tracks.rows) :
                 \E selected \in {filtered.tracks.rows[k]["id"]} :
                 \E track \in {[filtered.tracks EXCEPT
                                   !.rows = SelectSeq(@, LAMBDA r : r["id"] = selected)]} :
                 \E radar \in {get_filtered_acoustics(track, filtered.genres)} :
                 \E dates \in DateMeans :
                    /\ tracks_df' = Join(cat, "Valence")
                    /\ filter_spec' = s
                    /\ views' = filtered
                    /\ song_selection' = selected
                    /\ radar_df' = radar
                    /\ bar_df' = IF radar.error # None THEN radar
                                 ELSE SongsBarTable(Join(cat, "Valence"),
                                                    filtered.tracks, radar, dates)
    /\ phase' = "compared"
    /\ UNCHANGED <<refiltered, tempo_in, tempo_out, print_args, acoustic_print,
                   album, sessions>>

(***************************************************************************)
(* The Album page, from the query parameter to the recommendations.        *)
(***************************************************************************)
\* Lines 42-103 for the album of the given id: the discography query, the two
\* checks that raise ValueError, and the mean of the 7 features over the rows
\* of the discography.
OpenedAlbum(db, id) ==
    LET discography == Discography(db, id)
    IN  IF discography = <<>>
        THEN [pc |-> "failed", error |-> "ValueError", db |-> db, id |-> id,
              discography |-> discography]
        ELSE IF ~discography[1].dated
        THEN [pc |-> "failed", error |-> "ValueError", db |-> db, id |-> id,
              discography |-> discography]
        ELSE [pc |-> "opened", error |-> None, db |-> db, id |-> id,
              discography |-> discography,
              album_stats_df |-> MeanVector(discography)]

\* Lines 106-127 and 173: the genres of the album, the albums of those genres,
\* and the empty dict of recommendations.  cos_dis, genre_recs and written
\* keep, per genre handled, the distances of line 199, the albums of line 207
\* and what write_recs put out.
QueriedAlbum(a) ==
    LET genres == Unique([k \in 1..Len(a.discography) |->
                             a.discography[k].genre_id], {})
    IN  [pc |-> "recommending", error |-> None,
         db |-> a.db, id |-> a.id,
         discography |-> a.discography,
         album_stats_df |-> a.album_stats_df,
         genres |-> genres,
         albums_by_genre |-> AlbumsByGenre(a.db, a.id, genres),
         i |-> 1,
         recommendations |-> {},
         cos_dis |-> <<>>,
         genre_recs |-> <<>>,
         written |-> <<>>]

\* Lines 176-211, one turn of the loop: the albums of the genre, their cosine
\* distances to the album, the 3 nearest and their output through write_recs,
\* which is handed the dict recommendations.  cosine_distances refuses an
\* empty partition and np.argpartition a kth that is no index of cos_dis:
\* both raise a ValueError.  The results the turn can have.
RecommendTurn(a, recommendations) ==
    LET genre == a.genres[a.i]
        recs == SelectSeq(a.albums_by_genre, LAMBDA r : r.Genre = genre)
        cos_dis == [k \in 1..Len(recs) |->
                       SquaredCosine(recs[k].vec, a.album_stats_df)]
    IN  IF Len(recs) <= TopK
        THEN {[a EXCEPT !.pc = "failed", !.error = "ValueError"]}
        ELSE {LET ids == [k \in 1..TopK |-> recs[top[k]].id]
                  out == write_recs(ids, recommendations)
              IN  [a EXCEPT
                     !.cos_dis = Append(@, cos_dis),
                     !.genre_recs = Append(@, ids),
                     !.written = Append(@, out.written),
                     !.recommendations = out.recommendations,
                     !.i = @ + 1] : top \in ArgPartitionTop(cos_dis, TopK)}

\* The Album page is requested for an album id.
OpenAlbumPage ==
    /\ phase = "idle"
    /\ \E db \in Databases, id \in {0, 1} : album' = OpenedAlbum(db, id)
    /\ phase' = "album"
    /\ UNCHANGED <<songs_page, helper_calls, sessions>>

QueryAlbumsByGenre ==
    /\ phase = "album"
    /\ album.pc = "opened"
    /\ album' = QueriedAlbum(album)
    /\ UNCHANGED <<phase, songs_page, helper_calls, sessions>>

RecommendForGenre ==
    /\ phase = "album"
    /\ album.pc = "recommending"
    /\ album.i <= Len(album.genres)
    /\ album' \in RecommendTurn(album, album.recommendations)
    /\ UNCHANGED <<phase, songs_page, helper_calls, sessions>>

\* Lines 213-262: after the loop the track list and the descriptions are shown.
ShowTrackList ==
    /\ phase = "album"
    /\ album.pc = "recommending"
    /\ album.i > Len(album.genres)
    /\ album' = [album EXCEPT !.pc = "shown"]
    /\ UNCHANGED <<phase, songs_page, helper_calls, sessions>>

\* range(start, stop, step) of Python, as the sequence it runs through.
RECURSIVE range(_, _, _)
range(start, stop, step) ==
    IF (step > 0 /\ start < stop) \/ (step < 0 /\ start > stop)
    THEN <<start>> \o range(start + step, stop, step)
    ELSE <<>>

\* get_logger of acoustic_helpers: logging setup, which hands the page a
\* logger and raises nothing.
get_logger == [error |-> None]

\* Variant: the redirect is written before the countdown.
RedirectThenCount(a) ==
    [f \in DOMAIN a \cup {"page", "escaped"} |->
        CASE f = "pc" -> "redirected"
          [] f = "page" ->
                 <<[op |-> "logger.error", i |-> 0], [op |-> "st.write", i |-> 0]>>
                 \o [k \in 1..5 |-> [op |-> "t.error", i |-> range(5, 0, -1)[k]]]
          [] f = "escaped" -> None
          [] OTHER -> a[f]]

\* Lines 291-314, except ValueError: the logger is fetched and the error
\* logged, t.error shows the message once for every i of range(5, 0, -1) with
\* a sleep of a second after it, and the refresh to '/' is written.  page is
\* what the handler puts out, in order; escaped is the exception that leaves
\* main().
except_ValueError(a) ==
    [f \in DOMAIN a \cup {"page", "escaped"} |->
        CASE f = "pc" -> "redirected"
          [] f = "page" ->
                 IF get_logger.error # None THEN <<>>
                 ELSE <<[op |-> "logger.error", i |-> 0]>>
                      \o [k \in 1..Len(range(5, 0, -1)) |->
                             [op |-> "t.error", i |-> range(5, 0, -1)[k]]]
                      \o <<[op |-> "st.write", i |-> 0]>>
          [] f = "escaped" -> get_logger.error
          [] OTHER -> a[f]]

\* A ValueError raised in the try block reaches its handler.
HandleValueError ==
    /\ phase = "album"
    /\ album.pc = "failed"
    /\ album.error = "ValueError"
    /\ album' = except_ValueError(album)
    /\ UNCHANGED <<phase, songs_page, helper_calls, sessions>>

\* Variant: one dict for the whole process, so a rendering sees what every
\* rendering under way has recorded.
SeenByAnyone(rs, s) ==
    UNION {rs[t].run.recommendations :
              t \in {u \in SessionIds : "recommendations" \in DOMAIN rs[u].run}}

\* The dict that the rendering of session s hands to write_recs: recommendations
\* is a local of main(), bound to a new dict at line 173 of every run.
SeenBy(rs, s) == rs[s].run.recommendations

\* A session requests its album (again, once the page has been shown): lines
\* 42-173 of a new run of main().  emitted_before keeps what the earlier
\* renderings of the session wrote.
StartRendering ==
    /\ phase \in {"idle", "renderings"}
    /\ \E s \in SessionIds :
         LET r == renderings[s]
         IN  /\ r.count < MaxRenderings
             /\ IF r.count = 0 THEN TRUE ELSE r.run.pc = "shown"
             /\ renderings' =
                   [renderings EXCEPT ![s] =
                      [run |-> QueriedAlbum(OpenedAlbum(SessionDatabase, s)),
                       count |-> r.count + 1,
                       emitted_before |->
                          IF r.count = 0 THEN {}
                          ELSE r.emitted_before \cup Range(Flatten(r.run.written))]]
    /\ phase' = "renderings"
    /\ UNCHANGED <<songs_page, helper_calls, album, session_state>>

\* One turn of the loop of lines 176-211 in one of the sessions.
RecommendInSession ==
    /\ phase = "renderings"
    /\ \E s \in SessionIds :
         LET run == renderings[s].run
         IN  /\ renderings[s].count > 0
             /\ run.pc = "recommending"
             /\ run.i <= Len(run.genres)
             /\ \E next \in RecommendTurn(run, SeenBy(renderings, s)) :
                   renderings' = [renderings EXCEPT ![s].run = next]
    /\ UNCHANGED <<phase, songs_page, helper_calls, album, session_state>>

\* Lines 213-262 in one of the sessions.
FinishRendering ==
    /\ phase = "renderings"
    /\ \E s \in SessionIds :
         LET run == renderings[s].run
         IN  /\ renderings[s].count > 0
             /\ run.pc = "recommending"
             /\ run.i > Len(run.genres)
             /\ renderings' = [renderings EXCEPT ![s].run.pc = "shown"]
    /\ UNCHANGED <<phase, songs_page, helper_calls, album, session_state>>

(***************************************************************************)
(* The Songs page over the runs of one browser session: the selectbox of   *)
(* the song and the three tabs.                                            *)
(***************************************************************************)
\* None, as the value of song_selection (track ids are positive).
NoSong == 0

\* The catalogue of the session: three tracks of one genre, of tempo 12.75,
\* 120.0 and 275.0, each inside the range of the tempo slider.
SongsCatalogue == <<<<12750, 1>>, <<120000, 1>>, <<275000, 1>>>>

\* st.selectbox(options=..., index=...): the option at index (the first one by
\* default), None when there is no option.  Indices count from 1 here.
selectbox(options, index) ==
    IF options = <<>> THEN NoSong ELSE options[index]

\* list.index(x): the first position of x, or a ValueError.
ListIndex(list, x) ==
    IF \E k \in 1..Len(list) : list[k] = x
    THEN [error |-> None,
          value |-> CHOOSE k \in 1..Len(list) :
                        list[k] = x /\ \A j \in 1..(k - 1) : list[j] # x]
    ELSE Raised("ValueError", <<>>)

\* Variant: the selectbox is always built with its default index.
SelectDefault(in_state, previous, options) ==
    LET chosen == selectbox(options, 1)
    IN  [song_selection |-> chosen, stopped |-> in_state /\ chosen = NoSong]

\* Lines 212-245.  Without the key in st.session_state the selectbox takes its
\* default; with it the index of the previous selection is looked up, the
\* ValueError of a selection that is no longer an option is caught and the
\* default taken, and the finally clause stops the run on None.
SelectSong(in_state, previous, options) ==
    IF ~in_state
    THEN [song_selection |-> selectbox(options, 1), stopped |-> FALSE]
    ELSE LET at == ListIndex(options, previous)
             chosen == IF at.error = None THEN selectbox(options, at.value)
                       ELSE selectbox(options, 1)
         IN  [song_selection |-> chosen, stopped |-> chosen = NoSong]

\* Variant: the tabs do not test the selection.
TabsUnguarded(selected, track) ==
    [calls |-> <<"generate_acoustic_print", "generate_acoustic_print",
                 "get_filtered_acoustics">>,
     error |-> None]

\* Lines 247-285, the first two tabs: nothing but a message without a
\* selection; else the two prints of the track, the second of which hands the
\* tempo to norm_tempo (helper line 348), whose ValueError nothing on the
\* page catches, and then the radar table.
SongsTabs(selected, track) ==
    IF selected = NoSong
    THEN [calls |-> <<>>, error |-> None]
    ELSE IF norm_tempo(track[1]["Tempo"]).error # None
    THEN [calls |-> <<"generate_acoustic_print", "generate_acoustic_print">>,
          error |-> norm_tempo(track[1]["Tempo"]).error]
    ELSE [calls |-> <<"generate_acoustic_print", "generate_acoustic_print",
                      "get_filtered_acoustics">>,
          error |-> None]

\* One run of main() of the Songs page, lines 181-285, with the filters s.
SongsRun(state, s) ==
    LET filtered == get_filtered_tracks(Join(SongsCatalogue, "Tempo"), s)
        options == [k \in 1..Len(filtered.tracks.rows) |->
                       filtered.tracks.rows[k]["id"]]
        in_state == state.called
        previous == IF in_state THEN state.song_selection ELSE NoSong
        sel == SelectSong(in_state, previous, options)
        track == SelectSeq(filtered.tracks.rows,
                           LAMBDA r : r["id"] = sel.song_selection)
        tabs == IF sel.stopped THEN [calls |-> <<>>, error |-> None]
                ELSE SongsTabs(sel.song_selection, track)
    IN  [called |-> TRUE,
         runs |-> IF in_state THEN state.runs + 1 ELSE 1,
         in_state |-> in_state,
         previous |-> previous,
         options |-> options,
         tempos |-> [k \in 1..Len(options) |-> filtered.tracks.rows[k]["Tempo"]],
         song_selection |-> sel.song_selection,
         selection |-> sel.song_selection,
         stopped |-> sel.stopped,
         calls |-> tabs.calls,
         error |-> tabs.error]

\* The user moves a slider (or opens the page) and the script runs.
RunSongsPage ==
    /\ phase \in {"idle", "songs_session"}
    /\ IF session_state.called THEN session_state.runs < MaxRuns ELSE TRUE
    /\ \E s \in FilterSpecs("Tempo") :
          session_state' = SongsRun(session_state, s)
    /\ phase' = "songs_session"
    /\ UNCHANGED <<songs_page, helper_calls, album, renderings>>

\* The user picks another song in the selectbox: the widget writes it to
\* st.session_state under its key, for the run that follows.
PickSong ==
    /\ phase = "songs_session"
    /\ session_state.called
    /\ \E id \in Range(session_state.options) \ {session_state.song_selection} :
          session_state' = [session_state EXCEPT !.song_selection = id]
    /\ UNCHANGED <<phase, songs_page, helper_calls, album, renderings>>

Next ==
    \/ CallGetFilteredTracks
    \/ CompareSelectedSong
    \/ CallGetFilteredTracksAgain
    \/ CallNormTempo
    \/ OpenAlbumPage
    \/ QueryAlbumsByGenre
    \/ RecommendForGenre
    \/ ShowTrackList
    \/ HandleValueError
    \/ StartRendering
    \/ RecommendInSession
    \/ FinishRendering
    \/ RunSongsPage
    \/ PickSong
    \/ CallGenerateAcousticprint
    \/ CallGenerateAcousticprintDefault

Spec == Init /\ [][Next]_vars

(***************************************************************************)
(* Properties of get_filtered_tracks.                                      *)
(***************************************************************************)
Filtered == phase \in {"filtered", "refiltered"}

\* The retention predicate as the filter's contract states it: every bounded
\* feature, the tempo and the duration within their inclusive ranges (minutes
\* against seconds) and the explicit flag admitted.
Admissible(row, s) ==
    /\ \A f \in Range(BoundedFeatures) :
          s[MinField[f]] <= row[f] /\ row[f] <= s[MaxField[f]]
    /\ s.min_tempo <= row["Tempo"] /\ row["Tempo"] <= s.max_tempo
    /\ s.min_duration * 60 <= 100 * row["Duration"]
    /\ 100 * row["Duration"] <= s.max_duration * 60
    /\ row["Explicit"] \in s.explicit_vals

InGenreView(row) ==
    \E k \in 1..Len(views.genres.rows) :
        /\ views.genres.rows[k]["id"] = row["id"]
        /\ views.genres.rows[k]["Genre"] = row["Genre"]

InTrackView(row) ==
    \E k \in 1..Len(views.tracks.rows) : views.tracks.rows[k]["id"] = row["id"]

CountRows(rows, id) == Cardinality({k \in 1..Len(rows) : rows[k]["id"] = id})

\* C1: a join row is retained, in both views, if and only if it satisfies every
\* range predicate (bounds inclusive, duration bounds in minutes) and its
\* explicit flag is admitted.
C1_RetainedIffAdmissible ==
    Filtered =>
        /\ views.error = None
        /\ \A k \in 1..Len(tracks_df.rows) :
              LET r == tracks_df.rows[k]
              IN  /\ InGenreView(r) <=> Admissible(r, filter_spec)
                  /\ InTrackView(r) <=> Admissible(r, filter_spec)

\* A track whose tempo equals the upper tempo bound is retained while another
\* track, above the bound, is excluded.
C1_Witness ==
    /\ phase = "filtered"
    /\ \E i, j \in 1..Len(tracks_df.rows) :
          /\ tracks_df.rows[i]["Tempo"] = filter_spec.max_tempo
          /\ InTrackView(tracks_df.rows[i])
          /\ tracks_df.rows[j]["Tempo"] > filter_spec.max_tempo
          /\ ~InTrackView(tracks_df.rows[j])

\* C2: a retained track that is in the join once per genre, for n genres, has
\* exactly n rows in the GenreRowView (one per genre) and exactly 1 row in the
\* TrackView.
C2_OneRowPerGenreOnePerTrack ==
    Filtered =>
        \A k \in 1..Len(tracks_df.rows) :
            LET r == tracks_df.rows[k]
            IN  Admissible(r, filter_spec) =>
                  /\ CountRows(views.genres.rows, r["id"])
                        = CountRows(tracks_df.rows, r["id"])
                  /\ InGenreView(r)
                  /\ CountRows(views.tracks.rows, r["id"]) = 1

C2_Witness ==
    /\ phase = "filtered"
    /\ \E k \in 1..Len(tracks_df.rows) :
          LET id == tracks_df.rows[k]["id"]
          IN  /\ CountRows(tracks_df.rows, id) >= 2
              /\ CountRows(views.genres.rows, id) = CountRows(tracks_df.rows, id)
              /\ CountRows(views.tracks.rows, id) = 1

\* The TrackView rows are the retained join rows, column by column (Duration,
\* which is re-encoded, aside), each once.
TrackViewRowsAreRetainedRows ==
    LET cols == Range(views.tracks.columns) \ {"Duration"}
        Same(t, r) == \A c \in cols : t[c] = r[c]
        kept == {k \in 1..Len(tracks_df.rows) :
                    Admissible(tracks_df.rows[k], filter_spec)}
    IN  /\ \A i \in 1..Len(views.tracks.rows) :
              /\ DOMAIN views.tracks.rows[i] = Range(views.tracks.columns)
              /\ \E k \in kept : Same(views.tracks.rows[i], tracks_df.rows[k])
        /\ \A k \in kept :
              \E i \in 1..Len(views.tracks.rows) :
                  Same(views.tracks.rows[i], tracks_df.rows[k])
        /\ \A i, j \in 1..Len(views.tracks.rows) :
              views.tracks.rows[i] = views.tracks.rows[j] => i = j

\* C3 as stated: only the genre column is dropped, so the explicit flag and
\* every other input column is a column of the TrackView.
C3_OnlyGenreDropped ==
    Filtered =>
        /\ views.tracks.columns = SelectSeq(InputColumns, LAMBDA c : c # "Genre")
        /\ TrackViewRowsAreRetainedRows

\* C3, amended: the TrackView is the retained rows with the genre column and
\* the explicit flag (the last input column) dropped and exact duplicates
\* collapsed; every other input column is still present.
C3_GenreAndExplicitDropped ==
    Filtered =>
        /\ views.tracks.columns
              = SelectSeq(InputColumns, LAMBDA c : c \notin {"Genre", "Explicit"})
        /\ TrackViewRowsAreRetainedRows

C3_Witness ==
    /\ phase = "filtered"
    /\ Len(views.tracks.rows) = 2
    /\ Len(views.genres.rows) > 2
    /\ "Explicit" \notin DOMAIN views.tracks.rows[1]
    /\ "Album" \in DOMAIN views.tracks.rows[1]

\* C4 as stated: filtering the TrackView again with the same filter returns
\* the identical TrackView, without an error.
C4_RefilterIsIdentity ==
    phase = "refiltered" =>
        /\ refiltered.error = None
        /\ refiltered.tracks = views.tracks

\* C4, amended: get_filtered_tracks applied to the TrackView it produced
\* returns no TrackView: it raises a TypeError when the TrackView has rows (its
\* Duration is text) and an AttributeError when it has none (it has no Explicit
\* column).
C4_RefilterRaises ==
    phase = "refiltered" =>
        refiltered.error =
            IF views.tracks.rows # <<>> THEN "TypeError" ELSE "AttributeError"

C4_Witness ==
    /\ phase = "refiltered"
    /\ Len(views.tracks.rows) = 2
    /\ refiltered.error = "TypeError"

\* C5: when no input row satisfies the predicate (an empty explicit_vals and an
\* empty input included) both views are empty and no error is raised.
C5_EmptyResultIsNoError ==
    (Filtered /\ \A k \in 1..Len(tracks_df.rows) :
                    ~Admissible(tracks_df.rows[k], filter_spec)) =>
        /\ views.error = None
        /\ views.tracks.rows = <<>>
        /\ views.genres.rows = <<>>

C5_Witness ==
    /\ phase = "filtered"
    /\ tracks_df.rows # <<>>
    /\ filter_spec.explicit_vals = {}
    /\ views.error = None
    /\ views.tracks.rows = <<>>
    /\ views.genres.rows = <<>>

\* The number a text of decimal digits denotes.
DigitValue(ch) == CHOOSE d \in 0..9 : DigitChar[d + 1] = ch

RECURSIVE DecimalValue(_)
DecimalValue(txt) ==
    IF txt = <<>> THEN 0
    ELSE 10 * DecimalValue(SubSeq(txt, 1, Len(txt) - 1)) + DigitValue(txt[Len(txt)])

\* txt reads "<m>:<ss>" for d seconds: m = d div 60 without leading zeros, ss =
\* d mod 60 in exactly two digits.
ShowsMinutesSeconds(txt, d) ==
    LET n == Len(txt)
    IN  /\ n >= 4
        /\ txt[n - 2] = ":"
        /\ \A i \in (1..n) \ {n - 2} : txt[i] \in Range(DigitChar)
        /\ n > 4 => txt[1] # "0"
        /\ DecimalValue(SubSeq(txt, 1, n - 3)) = d \div 60
        /\ DecimalValue(SubSeq(txt, n - 1, n)) = d % 60

\* C6: the TrackView shows a Duration of d seconds as d div 60, a colon and
\* d mod 60 in two digits (no hours); the GenreRowView has no duration column
\* and the 7 features of its rows are those of the input rows.
C6_DurationShownInTrackViewOnly ==
    Filtered =>
        /\ \A i \in 1..Len(views.tracks.rows) :
              \E k \in 1..Len(tracks_df.rows) :
                  /\ tracks_df.rows[k]["id"] = views.tracks.rows[i]["id"]
                  /\ ShowsMinutesSeconds(views.tracks.rows[i]["Duration"],
                                         tracks_df.rows[k]["Duration"])
        /\ "Duration" \notin Range(views.genres.columns)
        /\ \A i \in 1..Len(views.genres.rows) :
              /\ "Duration" \notin DOMAIN views.genres.rows[i]
              /\ \E k \in 1..Len(tracks_df.rows) :
                    /\ tracks_df.rows[k]["id"] = views.genres.rows[i]["id"]
                    /\ tracks_df.rows[k]["Genre"] = views.genres.rows[i]["Genre"]
                    /\ \A f \in Range(BoundedFeatures) :
                          views.genres.rows[i][f] = tracks_df.rows[k][f]

C6_Witness ==
    /\ phase = "filtered"
    /\ \E i, j \in 1..Len(views.tracks.rows) :
          /\ views.tracks.rows[i]["Duration"] = <<"1", ":", "0", "5">>
          /\ views.tracks.rows[j]["Duration"] = <<"6", "0", ":", "0", "0">>
    /\ views.genres.rows # <<>>

(***************************************************************************)
(* Properties of norm_tempo.                                               *)
(***************************************************************************)
\* C7: norm_tempo raises a ValueError exactly when tempo <= 12.75 or
\* tempo > 251.072, and returns a value for every other tempo.
C7_RaisesExactlyOutsideDomain ==
    phase = "normed" =>
        /\ tempo_out.error \in {None, "ValueError"}
        /\ tempo_out.error = "ValueError" <=> (tempo_in <= 12750 \/ tempo_in > 251072)

\* 12.75 itself is refused.
C7_Witness ==
    /\ phase = "normed"
    /\ tempo_in = 12750
    /\ tempo_out.error = "ValueError"

\* C8: an accepted tempo is mapped to ((tempo - 12.75) / (251.072 - 12.75)) * 10,
\* which is greater than 0, at most 10, and 10 exactly at tempo = 251.072.
C8_NormalisedIntoZeroTen ==
    (phase = "normed" /\ tempo_out.error = None) =>
        LET v == tempo_out.value
            \* v.n / v.d = ((tempo_in - 12750) * 10) / (251072 - 12750), as
            \* the fraction in lowest terms scaled by k
            k == (251072 - 12750) \div v.d
        IN  /\ IsNum(v)
            /\ v.d > 0
            /\ v.d * k = 251072 - 12750
            /\ v.n * k = (tempo_in - 12750) * 10
            /\ v.n > 0
            /\ v.n <= 10 * v.d
            /\ v.n = 10 * v.d <=> tempo_in = 251072

C8_Witness ==
    /\ phase = "normed"
    /\ tempo_in = 251072
    /\ tempo_out.error = None
    /\ tempo_out.value = [t |-> "num", n |-> 10, d |-> 1]

(***************************************************************************)
(* Properties of generate_acousticprint.                                   *)
(***************************************************************************)
\* A call the generator accepts: a frame, a positive integer number of points,
\* one of the two categories and, for articulation, a tempo norm_tempo accepts.
ValidPrintCall ==
    /\ phase = "printed"
    /\ print_args.data_type = "DataFrame"
    /\ print_args.points_type = "int"
    /\ print_args.category_type = "str"
    /\ print_args.points >= 1
    /\ print_args.category \in {"dynamics", "articulation"}
    /\ print_args.category = "articulation" =>
          (12750 < print_args.data["Tempo"] /\ print_args.data["Tempo"] <= 251072)

RhoOfGroup(g, theta) ==
    IF print_args.category = "dynamics"
    THEN <<valence_rho(print_args.data, theta),
           energy_rho(print_args.data, theta),
           danceability_rho(print_args.data, theta)>>[g]
    ELSE <<acoustic_rho(print_args.data, theta),
           instrumental_rho(print_args.data, theta),
           speech_rho(print_args.data, theta)>>[g]

\* C10: with (x, y) = (rho*cos(theta), rho*sin(theta)) of each curve, the first
\* group has (X, Y, Z) = (x1, y1, 0), the second (0, x2, y2) and the third
\* (y3, 0, x3), for dynamics and for articulation.
C10_EachGroupInItsOwnPlane ==
    ValidPrintCall =>
        LET p == print_args.points
        IN  /\ acoustic_print.error = None
            /\ \A i \in 1..p :
                  LET theta == Theta(i - 1, p)
                      x(g) == Mul(RhoOfGroup(g, theta), Cos(theta))
                      y(g) == Mul(RhoOfGroup(g, theta), Sin(theta))
                      first == acoustic_print.rows[i]
                      second == acoustic_print.rows[p + i]
                      third == acoustic_print.rows[2 * p + i]
                  IN  /\ first.Z = Zero /\ first.X = x(1) /\ first.Y = y(1)
                      /\ second.X = Zero /\ second.Y = x(2) /\ second.Z = y(2)
                      /\ third.Y = Zero /\ third.Z = x(3) /\ third.X = y(3)

\* An articulation print whose curves leave the axes: in each group both
\* coordinates of its plane are non-zero at the second sample.
C10_Witness ==
    /\ ValidPrintCall
    /\ print_args.category = "articulation"
    /\ print_args.points = 6
    /\ acoustic_print.rows[2].X # Zero /\ acoustic_print.rows[2].Y # Zero
    /\ acoustic_print.rows[8].Y # Zero /\ acoustic_print.rows[8].Z # Zero
    /\ acoustic_print.rows[14].Z # Zero /\ acoustic_print.rows[14].X # Zero

\* A well-typed dynamics call with at least one point.
DynamicsCall ==
    /\ phase = "printed"
    /\ print_args.data_type = "DataFrame"
    /\ print_args.points_type = "int"
    /\ print_args.category_type = "str"
    /\ print_args.points >= 1
    /\ print_args.category = "dynamics"

\* C11: a dynamics call succeeds for any tempo, the normaliser's domain
\* notwithstanding; the first sample (theta = 0) of each curve has
\* rho = tempo + 1 whatever the features, so the first Valence row is
\* (tempo + 1, 0, 0); with tempo = 0 every rho is 1, so every sample is
\* (cos theta, sin theta) in the plane of its curve.
C11_DynamicsTakesAnyTempo ==
    DynamicsCall =>
        LET p == print_args.points
            tempo == print_args.data["Tempo"]
            rho0 == [t |-> "num", n |-> 0, d |-> 1]
            first == acoustic_print.rows[1]
        IN  /\ acoustic_print.error = None
            /\ Len(acoustic_print.rows) = 3 * p
            /\ first.Attribute = "Valence"
            /\ first.X.t = "num"
            /\ first.X.n * 1000 = (tempo + 1000) * first.X.d
            /\ first.Y = rho0 /\ first.Z = rho0
            /\ acoustic_print.rows[p + 1].Y = first.X
            /\ acoustic_print.rows[2 * p + 1].Z = first.X
            /\ tempo = 0 =>
                  \A i \in 1..p :
                      LET theta == Theta(i - 1, p)
                      IN  /\ acoustic_print.rows[i].X = Cos(theta)
                          /\ acoustic_print.rows[i].Y = Sin(theta)
                          /\ acoustic_print.rows[p + i].Y = Cos(theta)
                          /\ acoustic_print.rows[p + i].Z = Sin(theta)
                          /\ acoustic_print.rows[2 * p + i].Z = Cos(theta)
                          /\ acoustic_print.rows[2 * p + i].X = Sin(theta)

\* Tempo 0, which norm_tempo refuses, with 4 points: the first Valence row is
\* X = 1, Y = 0.
C11_Witness ==
    /\ DynamicsCall
    /\ print_args.data["Tempo"] = 0
    /\ print_args.points = 4
    /\ print_args.data["Valence"] = 50
    /\ norm_tempo(0).error = "ValueError"
    /\ acoustic_print.error = None
    /\ acoustic_print.rows[1] =
          [Attribute |-> "Valence", X |-> One, Y |-> Zero, Z |-> Zero]

\* The text of a one-digit number in a message.
Repr(v) == DigitChar[v + 1]

Mentions(msg, txt) == \E k \in 1..Len(msg) : msg[k] = txt

\* C13 as stated: a call whose points is no positive integer (no integer, zero
\* or negative) or whose category is neither 'dynamics' nor 'articulation'
\* raises a TypeError or a ValueError and returns no table.
C13_InvalidArgumentsRejected ==
    (/\ phase = "printed"
     /\ print_args.data_type = "DataFrame"
     /\ \/ print_args.points_type # "int"
        \/ print_args.points <= 0
        \/ print_args.category_type # "str"
        \/ print_args.category \notin {"dynamics", "articulation"}) =>
        /\ acoustic_print.error \in {"TypeError", "ValueError"}
        /\ "rows" \notin DOMAIN acoustic_print

\* C14: an articulation call (well typed, points >= 0) whose tempo is outside
\* (12.75, 251.072] ends in the ValueError that norm_tempo raises (which has no
\* message) and returns no table, not even a partial one.
C14_ArticulationRefusesTempo ==
    (/\ phase = "printed"
     /\ print_args.data_type = "DataFrame"
     /\ print_args.points_type = "int"
     /\ print_args.category_type = "str"
     /\ print_args.points >= 0
     /\ print_args.category = "articulation"
     /\ \/ print_args.data["Tempo"] <= 12750
        \/ print_args.data["Tempo"] > 251072) =>
        /\ acoustic_print = [error |-> "ValueError", msg |-> <<>>]
        /\ "rows" \notin DOMAIN acoustic_print

C14_Witness ==
    /\ phase = "printed"
    /\ print_args.category = "articulation"
    /\ print_args.points = 6
    /\ print_args.data["Tempo"] = 12750
    /\ acoustic_print.error = "ValueError"
    /\ DOMAIN acoustic_print = {"error", "msg"}

\* C15 as stated: the message of a TypeError for points names the type or the
\* value of points, that of a TypeError for category names the type or the
\* value of category, and the ValueError for an unknown category names it.
C15_ErrorNamesOffendingArgument ==
    (phase = "printed" /\ print_args.data_type = "DataFrame") =>
        /\ (print_args.points_type # "int" /\ print_args.points \in 0..9) =>
              /\ acoustic_print.error = "TypeError"
              /\ \/ Mentions(acoustic_print.msg, print_args.points_type)
                 \/ Mentions(acoustic_print.msg, Repr(print_args.points))
        /\ (print_args.points_type = "int" /\ print_args.category_type # "str") =>
              /\ acoustic_print.error = "TypeError"
              /\ \/ Mentions(acoustic_print.msg, print_args.category_type)
                 \/ Mentions(acoustic_print.msg, print_args.category)
        /\ (/\ print_args.points_type = "int"
            /\ print_args.category_type = "str"
            /\ print_args.points >= 0
            /\ print_args.category \notin {"dynamics", "articulation"}) =>
              /\ acoustic_print.error = "ValueError"
              /\ Mentions(acoustic_print.msg, print_args.category)

\* C16 as stated: a call that passes no points evaluates 1500 points per curve
\* and returns 4500 rows.
C16_DefaultIs1500Points ==
    phase = "printed_default" =>
        /\ print_args.points = 1500
        /\ acoustic_print.error = None
        /\ Len(acoustic_print.rows) = 4500

(***************************************************************************)
(* Properties of the comparison tables.                                    *)
(***************************************************************************)
\* The sum of a feature (in hundredths) over the GenreRowView rows in S.
RECURSIVE SumOverGenreRows(_, _)
SumOverGenreRows(S, f) ==
    IF S = {} THEN 0
    ELSE LET k == CHOOSE j \in S : TRUE
         IN  views.genres.rows[k][f] + SumOverGenreRows(S \ {k}, f)

\* The GenreRowView rows of a genre, and the genres of the selected track.
GenreMembers(g) ==
    {k \in 1..Len(views.genres.rows) : views.genres.rows[k]["Genre"] = g}

GenresOfSelection ==
    {views.genres.rows[k]["Genre"] :
        k \in {j \in 1..Len(views.genres.rows) :
                  views.genres.rows[j]["id"] = song_selection}}

\* C17: the radar table starts with one 'Current Song' row per bounded feature
\* holding the selected track's own value, followed by one row per feature and
\* genre for exactly the genres the GenreRowView associates with the selected
\* id, whose value is the sum of that feature over all GenreRowView rows of the
\* genre divided by their number (the row's own value when there is one row).
C17_OwnValuesThenMeansOfOwnGenres ==
    phase = "compared" =>
        LET rows == radar_df.rows
            own == GenresOfSelection
            target == CHOOSE r \in Range(tracks_df.rows) : r["id"] = song_selection
        IN  /\ radar_df.error = None
            /\ Len(rows) = 7 * (1 + Cardinality(own))
            /\ \A k \in 1..7 :
                  /\ rows[k]["Theta"] = BoundedFeatures[k]
                  /\ rows[k]["Song's Genres"] = <<"Current Song", 0>>
                  /\ rows[k]["Rho"].n * 100
                        = target[BoundedFeatures[k]] * rows[k]["Rho"].d
            /\ \A k \in 8..Len(rows) : rows[k]["Song's Genres"] \in own
            /\ \A g \in own : \A i \in 1..7 :
                  LET f == BoundedFeatures[i]
                      at == {k \in 8..Len(rows) :
                                /\ rows[k]["Theta"] = f
                                /\ rows[k]["Song's Genres"] = g}
                  IN  /\ Cardinality(at) = 1
                      /\ \A k \in at :
                            /\ rows[k]["Rho"].t = "num"
                            /\ rows[k]["Rho"].n * 100 * Cardinality(GenreMembers(g))
                                  = SumOverGenreRows(GenreMembers(g), f)
                                      * rows[k]["Rho"].d
                            /\ Cardinality(GenreMembers(g)) = 1 =>
                                  rows[k]["Rho"].n * 100
                                     = target[f] * rows[k]["Rho"].d

\* The selected track has one genre while the GenreRowView holds two, and the
\* genre's Valence mean, over two tracks, is the value of neither.
C17_Witness ==
    /\ phase = "compared"
    /\ Cardinality(GenresOfSelection) = 1
    /\ \E k \in 1..Len(views.genres.rows) :
          views.genres.rows[k]["Genre"] \notin GenresOfSelection
    /\ Len(radar_df.rows) = 14
    /\ radar_df.rows[1]["Rho"] = [t |-> "num", n |-> 1, d |-> 1]
    /\ radar_df.rows[8]["Theta"] = "Valence"
    /\ radar_df.rows[8]["Rho"] = [t |-> "num", n |-> 1, d |-> 2]

\* C18 as stated: every row of the radar table and of the bar table (Current
\* Song, genre means, 'Catalogue (filtered)' and 'Catalogue (total)') names one
\* of the 7 bounded features.
C18_OnlyBoundedFeaturesAggregated ==
    (phase = "compared" /\ bar_df.error = None) =>
        /\ \A k \in 1..Len(radar_df.rows) :
              radar_df.rows[k]["Theta"] \in Range(BoundedFeatures)
        /\ \A k \in 1..Len(bar_df.rows) :
              bar_df.rows[k]["Audio Features"] \in Range(BoundedFeatures)

(***************************************************************************)
(* Properties of the Album page.                                           *)
(***************************************************************************)
\* The tracks of the requested album, as the database holds them.
RequestedAlbumTracks ==
    (CHOOSE a \in Range(album.db) : a.id = album.id).tracks

RECURSIVE SumOverTracks(_, _, _)
SumOverTracks(tracks, f, k) ==
    IF k > Len(tracks) THEN 0 ELSE tracks[k].vec[f] + SumOverTracks(tracks, f, k + 1)

\* C19 as stated: every feature of the album's vector is the sum of that
\* feature over the tracks of the album, each track once, divided by the
\* number of tracks.
C19_AlbumMeanCountsEachTrackOnce ==
    (phase = "album" /\ "album_stats_df" \in DOMAIN album) =>
        \A f \in 1..7 :
            album.album_stats_df[f].n * 100 * Len(RequestedAlbumTracks)
               = SumOverTracks(RequestedAlbumTracks, f, 1) * album.album_stats_df[f].d

\* The run has reached the recommendations.
Recommending == phase = "album" /\ "albums_by_genre" \in DOMAIN album

\* C20: the requested album is none of the candidates of any of its genres, is
\* not among the 3 albums selected for a genre and is in no list written.
C20_RequestedAlbumNeverRecommended ==
    Recommending =>
        /\ \A k \in 1..Len(album.albums_by_genre) :
              album.albums_by_genre[k].id # album.id
        /\ \A g \in 1..Len(album.genre_recs) :
              /\ \A k \in 1..Len(album.genre_recs[g]) :
                    album.genre_recs[g][k] # album.id
              /\ \A k \in 1..Len(album.written[g]) :
                    album.written[g][k] # album.id
        /\ album.id \notin album.recommendations

\* The requested album has tracks in two genres and a release date, as the
\* candidates have, and lists were written for both genres.
C20_Witness ==
    /\ Recommending
    /\ album.pc = "shown"
    /\ Len(album.genres) = 2
    /\ \E a \in Range(album.db) :
          a.id = album.id /\ a.dated /\ Len(a.tracks) = 2
    /\ Len(album.written) = 2
    /\ album.written[1] # <<>>
    /\ Len(album.albums_by_genre) >= 8

\* The albums written for the genres handled so far, as one sequence.
EmittedSoFar == Flatten(album.written)

\* C21: within one rendering no album is written in the lists of two genres
\* (nor twice in one list), and the accumulator handed to every write_recs
\* call holds exactly the albums written so far.
C21_EmittedOnceAcrossGenres ==
    Recommending =>
        /\ \A i, j \in 1..Len(EmittedSoFar) :
              i # j => EmittedSoFar[i] # EmittedSoFar[j]
        /\ album.recommendations = Range(EmittedSoFar)

\* An album among the nearest of the second genre had been written for the
\* first, so the second list is shorter than the selection it came from.
C21_Witness ==
    /\ Recommending
    /\ Len(album.written) = 2
    /\ Len(album.written[1]) = TopK
    /\ \E k \in 1..TopK : album.genre_recs[2][k] \in Range(album.written[1])
    /\ Len(album.written[2]) < TopK

\* The rows of albums_by_genre of the g-th genre of the album.
PartitionOf(g) ==
    SelectSeq(album.albums_by_genre, LAMBDA r : r.Genre = album.genres[g])

\* The squared cosine between a row of albums_by_genre and the vector of the
\* album (album_stats_df, the target handed to cosine_distances).
CosineToTarget(row) == SquaredCosine(row.vec, album.album_stats_df)

\* C22: for every genre handled whose partition has more than 3 albums, the
\* albums selected are 3 distinct albums of the partition and no album of the
\* partition left out is strictly closer to the target than one selected, by
\* the distances cos_dis of the turn.
C22_SelectedAreNearest ==
    Recommending =>
        \A g \in 1..Len(album.genre_recs) :
            LET part == PartitionOf(g)
                selected == Range(album.genre_recs[g])
                cosine == album.cos_dis[g]
            IN  Len(part) > TopK =>
                  /\ Cardinality(selected) = TopK
                  /\ selected \subseteq {part[k].id : k \in 1..Len(part)}
                  /\ \A c \in {k \in 1..Len(part) : part[k].id \notin selected} :
                        \A n \in {k \in 1..Len(part) : part[k].id \in selected} :
                           ~Closer(cosine[c], cosine[n])

\* A partition of 5 albums at 5 different distances, of which the nearest 3
\* are not its first 3 rows: an album left out is strictly farther than every
\* album selected.
C22_Witness ==
    /\ Recommending
    /\ Len(album.genre_recs) >= 1
    /\ LET part == PartitionOf(1)
           selected == Range(album.genre_recs[1])
       IN  /\ Len(part) = 5
           /\ \A c, n \in 1..5 :
                 c # n => CosineToTarget(part[c]) # CosineToTarget(part[n])
           /\ \E k \in 1..TopK : part[k].id \notin selected
           /\ \A c, n \in 1..5 :
                 (part[c].id \notin selected /\ part[n].id \in selected)
                    => Closer(CosineToTarget(part[n]), CosineToTarget(part[c]))

\* The row of the g-th genre's partition for the album of the given id.
RowOf(g, id) == CHOOSE r \in Range(PartitionOf(g)) : r.id = id

\* C23 as stated: the albums written for a genre are in ascending order of
\* cosine distance to the target, albums at the same distance in ascending
\* order of id.
C23_EmittedNearestFirst ==
    Recommending =>
        \A g \in 1..Len(album.written) :
            \A k \in 1..(Len(album.written[g]) - 1) :
                LET this == RowOf(g, album.written[g][k])
                    next == RowOf(g, album.written[g][k + 1])
                IN  /\ ~Closer(CosineToTarget(next), CosineToTarget(this))
                    /\ CosineToTarget(next) = CosineToTarget(this)
                          => this.id < next.id

\* C24 as stated: the recommendation loop never fails, and a genre whose
\* partition has 3 albums or fewer (none included) gets the whole partition.
C24_SmallPartitionGivenWhole ==
    Recommending =>
        /\ album.pc \notin {"failed", "redirected"}
        /\ \A g \in 1..Len(album.genre_recs) :
              Len(PartitionOf(g)) <= TopK =>
                 Range(album.genre_recs[g])
                    = {PartitionOf(g)[k].id : k \in 1..Len(PartitionOf(g))}

\* The albums of the g-th selection of a run that the run itself had not
\* written for an earlier genre, in the order of the selection.
NotYetWritten(run, g) ==
    SelectSeq(run.genre_recs[g],
              LAMBDA id : id \notin Range(Flatten(SubSeq(run.written, 1, g - 1))))

\* C25: in every session the dict is empty when the loop of a rendering
\* begins, it holds the albums this rendering has written and no other, and
\* every list written is the selection less what this same rendering wrote
\* for earlier genres: nothing another session or an earlier rendering wrote
\* is withheld.
C25_AccumulatorOwnedByRendering ==
    \A s \in SessionIds :
        renderings[s].count > 0 =>
            LET run == renderings[s].run
            IN  /\ run.i = 1 => run.recommendations = {}
                /\ run.recommendations = Range(Flatten(run.written))
                /\ \A g \in 1..Len(run.written) :
                      run.written[g] = NotYetWritten(run, g)

\* Both sessions are inside their loops, the second rendering of session 1
\* has written an album that its first rendering had written, and session 2
\* has written an album that session 1 has recorded in its dict.
C25_Witness ==
    /\ \A s \in SessionIds :
          /\ renderings[s].count > 0
          /\ renderings[s].run.pc = "recommending"
          /\ Len(renderings[s].run.written) = 1
    /\ renderings[1].count = 2
    /\ \E id \in renderings[1].emitted_before :
          id \in Range(renderings[1].run.written[1])
    /\ \E id \in renderings[1].run.recommendations :
          id \in Range(renderings[2].run.written[1])

\* The album requested has no row in the discography, or its release date is
\* null.
NoSongsOrNoDate ==
    LET discography == Discography(album.db, album.id)
    IN  IF discography = <<>> THEN TRUE ELSE ~discography[1].dated

\* C26: a run whose album has no row or no release date holds no aggregate
\* table, no albums of the genres and no recommendation, at any time; once
\* its handler has run, the page shows the error logged, then the countdown
\* 5, 4, 3, 2, 1, then the redirect, and no exception has left main().
C26_ErrorPathBeforeAnyOutput ==
    ("pc" \in DOMAIN album /\ NoSongsOrNoDate) =>
        /\ album.pc \in {"failed", "redirected"}
        /\ DOMAIN album \cap {"album_stats_df", "genres", "albums_by_genre", "cos_dis",
                               "recommendations", "genre_recs", "written"} = {}
        /\ album.pc = "redirected" =>
              /\ album.escaped = None
              /\ Len(album.page) = 7
              /\ album.page[1].op = "logger.error"
              /\ \A k \in 1..5 : album.page[k + 1] = [op |-> "t.error", i |-> 6 - k]
              /\ album.page[7].op = "st.write"

\* The handler has run for an album that has tracks but no release date.
C26_Witness ==
    /\ "pc" \in DOMAIN album
    /\ album.pc = "redirected"
    /\ album.discography # <<>>
    /\ ~album.discography[1].dated

\* The handler has run for an album without a row in the discography.
C26_WitnessNoRows ==
    /\ "pc" \in DOMAIN album
    /\ album.pc = "redirected"
    /\ album.discography = <<>>

\* C27: a run of the Songs page whose TrackView is empty selects None, calls
\* neither the print generator nor get_filtered_acoustics and raises nothing;
\* when the key was in st.session_state already, the run is stopped.
C27_EmptyViewCallsNoHelper ==
    (session_state.called /\ session_state.options = <<>>) =>
        /\ session_state.selection = NoSong
        /\ session_state.calls = <<>>
        /\ session_state.error = None
        /\ session_state.in_state => session_state.stopped

\* A later run of the session has an empty TrackView after a run that had
\* selected a song.
C27_Witness ==
    /\ session_state.called
    /\ session_state.in_state
    /\ session_state.previous # NoSong
    /\ session_state.options = <<>>
    /\ session_state.stopped

\* The first run of a session has an empty TrackView and runs to its end.
C27_WitnessFirstRun ==
    /\ session_state.called
    /\ ~session_state.in_state
    /\ session_state.options = <<>>
    /\ ~session_state.stopped

\* C28: the selection of a run is the selection st.session_state held when
\* the run began if that id is among the ids of the new TrackView, and else
\* the first id of the TrackView, None when there is none; so it is an id of
\* the TrackView or None.
C28_SelectionKeptOrReset ==
    session_state.called =>
        /\ session_state.selection =
              IF session_state.in_state
                 /\ session_state.previous \in Range(session_state.options)
              THEN session_state.previous
              ELSE IF session_state.options = <<>> THEN NoSong
              ELSE session_state.options[1]
        /\ session_state.selection \in Range(session_state.options) \cup {NoSong}

\* A run has kept a selection that is not the first id of its TrackView.
C28_Witness ==
    /\ session_state.called
    /\ session_state.in_state
    /\ session_state.previous \in Range(session_state.options)
    /\ session_state.previous # session_state.options[1]
    /\ session_state.selection = session_state.previous

\* A run has reset a selection that its TrackView no longer holds.
C28_WitnessReset ==
    /\ session_state.called
    /\ session_state.in_state
    /\ session_state.previous # NoSong
    /\ session_state.options # <<>>
    /\ session_state.previous \notin Range(session_state.options)
    /\ session_state.selection = session_state.options[1]

\* C29: every track of the TrackView of a run of the Songs page has a tempo
\* that norm_tempo accepts, and the prints of the selected one raise nothing.
C29_RetainedTempoInDomain ==
    session_state.called =>
        /\ \A k \in 1..Len(session_state.tempos) :
              norm_tempo(session_state.tempos[k]).error = None
        /\ session_state.error = None

\* C30: the table the Songs page hands to plot_acoustic_bars, and the columns
\* of the table the Album page hands to it, have every column that
\* plot_acoustic_bars reads, so that the chart is drawn.
C30_BarTablesHaveColumnsRead ==
    /\ (phase = "compared" /\ bar_df.error = None) =>
           plot_acoustic_bars(bar_df).error = None
    /\ ("pc" \in DOMAIN album /\ album.pc \in {"opened", "recommending", "shown"}) =>
           plot_acoustic_bars([columns |-> AlbumBarColumns, rows |-> <<>>]).error = None

====
